---- MODULE Spec2Model ----
(***************************************************************************)
(* A model of the TAVAnet power/data-rate controller:                      *)
(*   - filePakGalih/PPO.py : the rate table, the VANET environment, the    *)
(*     PPO agent and the threaded optimisation server;                     *)
(*   - server.py           : the single-connection telemetry collector;    *)
(*   - client.py           : the sender of one JSON payload per connection.*)
(*                                                                         *)
(* Python floats of the rate table are denoted by their literals, as       *)
(* strings ("29.2"); Python's None is the string "None".  A Python tuple   *)
(* t is a TLA+ tuple, so t[i] in the source is t[i+1] here.                *)
(***************************************************************************)
EXTENDS Integers, Sequences, FiniteSets, TLC

VARIABLES
    mcs_tables,   \* PPO.py module global: standard -> list of entries
    rq,           \* the arguments of the rate lookup under test
    rres,         \* the results of the calls made so far, oldest first
    env_logs,     \* VANETEnv.car_logs: the pool reset() draws from
    current_state,\* VANETEnv.current_state
    env_last,     \* the last call made on the environment and how it ended
    env_nsteps,   \* number of step() calls made so far
    gin,          \* arguments (x, k) of the reward helper g under test
    gout,         \* the value g returned for them
    rwin,         \* the instance and arguments of the reward_function call under test
    rwout,        \* how that call ended and the reward it returned
    train_pc,     \* PPOAgent.train: position of the call
    train_args,   \* PPOAgent.train: num_episodes and batch_size
    train_state,  \* PPOAgent.train: its local `state`
    train_buf,    \* PPOAgent.train: the trajectory lists, one tuple per experience
    train_calls,  \* how many times train has called reset, step and update
    train_exc,    \* the exception that ended the call of train
    program,      \* which server listens on port 9999: "PPO" or "collector"
    srv_pc,       \* position of the server's main thread
    backlog,      \* connections established and not yet accepted, oldest first
    conn,         \* per connection: "idle", "connected", "accepted", "closed"
    payload,      \* per connection: the bytes its sender writes before closing
    rpos,         \* per connection: how many of those bytes the server has read
    hpc,          \* per connection: position of its handler
    hdata,        \* per connection: the handler's data / data_received
    hdecoded,     \* per connection: the handler's decoded_data / simulation_data
    herr,         \* per connection: the exception the handler's except clause caught
    hescaped,     \* per connection: the exception that left handle_client
    hproc,        \* per connection: how the call of process_car_log ended
    hcmd,         \* per connection: the actuation command its pass emitted
    car_logs,     \* Server.car_logs
    retval,       \* what server.py's start_server returned
    act           \* the emulator binding Server.net and the nodes' radio settings

rateVars == <<mcs_tables, rq, rres>>
envVars == <<env_logs, current_state, env_last, env_nsteps>>
rewardVars == <<gin, gout>>
bonusVars == <<rwin, rwout>>
trainVars == <<train_pc, train_args, train_state, train_buf, train_calls, train_exc>>
netVars == <<program, srv_pc, backlog, conn, payload, rpos, hpc, hdata, hdecoded,
            herr, hescaped, hproc, hcmd, car_logs, retval>>
actVars == <<act>>
vars == <<rateVars, envVars, rewardVars, bonusVars, trainVars, netVars, actVars>>
\* What an action of one component leaves alone.
notRate == <<envVars, rewardVars, bonusVars, trainVars, netVars, actVars>>
notEnv == <<rateVars, rewardVars, bonusVars, trainVars, netVars, actVars>>
notReward == <<rateVars, envVars, bonusVars, trainVars, netVars, actVars>>
notBonus == <<rateVars, envVars, rewardVars, trainVars, netVars, actVars>>
notTrain == <<rateVars, rewardVars, bonusVars, netVars, actVars>>
notNet == <<rateVars, envVars, rewardVars, bonusVars, trainVars>>

(***************************************************************************)
(* The rate table (PPO.py lines 25-95).                                    *)
(***************************************************************************)
LegacyAG ==
    << <<"BPSK", "6.0">>,   <<"BPSK", "9.0">>,
       <<"QPSK", "12.0">>,  <<"QPSK", "18.0">>,
       <<"16-QAM", "24.0">>, <<"16-QAM", "36.0">>,
       <<"64-QAM", "48.0">>, <<"64-QAM", "54.0">> >>

TableB ==
    << <<"DSSS", "1.0">>, <<"DSSS", "2.0">>,
       <<"CCK", "5.5">>,  <<"CCK", "11.0">> >>

TableN ==
    << <<0, "BPSK", "6.5", "13.5">>,
       <<1, "QPSK", "13.0", "27.0">>,
       <<2, "QPSK", "19.5", "40.5">>,
       <<3, "16-QAM", "26.0", "54.0">>,
       <<4, "16-QAM", "39.0", "81.0">>,
       <<5, "64-QAM", "52.0", "108.0">>,
       <<6, "64-QAM", "58.5", "121.5">>,
       <<7, "64-QAM", "65.0", "135.0">> >>

TableAC ==
    << <<0, "BPSK", "6.5", "13.5", "29.3", "58.5">>,
       <<1, "QPSK", "13.0", "27.0", "58.5", "117.0">>,
       <<2, "QPSK", "19.5", "40.5", "87.8", "175.5">>,
       <<3, "16-QAM", "26.0", "54.0", "117.0", "234.0">>,
       <<4, "16-QAM", "39.0", "81.0", "175.5", "351.0">>,
       <<5, "64-QAM", "52.0", "108.0", "234.0", "468.0">>,
       <<6, "64-QAM", "58.5", "121.5", "263.3", "526.5">>,
       <<7, "64-QAM", "65.0", "135.0", "292.5", "585.0">>,
       <<8, "256-QAM", "78.0", "162.0", "351.0", "702.0">>,
       <<9, "256-QAM", "None", "None", "390.0", "780.0">> >>

TableAX ==
    << <<0, "BPSK", "7.3", "15.0", "30.0", "60.0">>,
       <<1, "QPSK", "14.6", "30.0", "60.0", "120.0">>,
       <<2, "QPSK", "21.9", "45.0", "90.0", "180.0">>,
       <<3, "16-QAM", "29.2", "60.0", "120.0", "240.0">>,
       <<4, "16-QAM", "43.9", "90.0", "180.0", "360.0">>,
       <<5, "64-QAM", "58.5", "120.0", "240.0", "480.0">>,
       <<6, "64-QAM", "65.8", "135.0", "270.0", "540.0">>,
       <<7, "64-QAM", "73.1", "150.0", "300.0", "600.0">>,
       <<8, "256-QAM", "87.8", "180.0", "360.0", "720.0">>,
       <<9, "256-QAM", "97.5", "200.0", "400.0", "800.0">> >>

TableP ==
    << <<"BPSK", "3.0">>,   <<"BPSK", "6.0">>,
       <<"QPSK", "12.0">>,  <<"QPSK", "18.0">>,
       <<"16-QAM", "24.0">>, <<"16-QAM", "36.0">>,
       <<"64-QAM", "48.0">>, <<"64-QAM", "54.0">> >>

TableBD ==
    << <<0, "BPSK", "7.0", "14.0">>,
       <<1, "QPSK", "14.0", "28.0">>,
       <<2, "QPSK", "21.0", "42.0">>,
       <<3, "16-QAM", "28.0", "56.0">>,
       <<4, "16-QAM", "42.0", "84.0">>,
       <<5, "64-QAM", "56.0", "112.0">>,
       <<6, "64-QAM", "63.0", "126.0">>,
       <<7, "64-QAM", "70.0", "140.0">>,
       <<8, "256-QAM", "84.0", "168.0">>,
       <<9, "256-QAM", "105.0", "210.0">> >>

\* The value the module binds to mcs_tables when it is imported.
McsTablesLiteral ==
    [s \in {"802.11a", "802.11b", "802.11g", "802.11n", "802.11ac",
            "802.11ax", "802.11p", "802.11bd"} |->
        CASE s = "802.11a"  -> LegacyAG
          [] s = "802.11b"  -> TableB
          [] s = "802.11g"  -> LegacyAG
          [] s = "802.11n"  -> TableN
          [] s = "802.11ac" -> TableAC
          [] s = "802.11ax" -> TableAX
          [] s = "802.11p"  -> TableP
          [] s = "802.11bd" -> TableBD]

\* The standards line 110 tests for: the bandwidth-adaptive ones.
AdaptiveStandards == {"802.11n", "802.11ac", "802.11ax", "802.11bd"}

\* `for entry in mcs_table: if entry[0] == mcs_index: ... break` (lines
\* 111-115): the first entry whose index field matches, scanning from
\* position i; modulation and datarate keep their initial None when the
\* scan ends without a match.
RECURSIVE ScanEntries(_, _, _, _)
ScanEntriesWrongColumn(table, i, mcs_index, bandwidth) ==
    IF i > Len(table) THEN <<"None", "None">>
    ELSE IF table[i][1] = mcs_index
         THEN <<table[i][2], IF bandwidth = 20 THEN table[i][4] ELSE table[i][3]>>
         ELSE ScanEntries(table, i + 1, mcs_index, bandwidth)

ScanEntries(table, i, mcs_index, bandwidth) ==
    IF i > Len(table) THEN <<"None", "None">>
    ELSE IF table[i][1] = mcs_index
         THEN <<table[i][2], IF bandwidth = 20 THEN table[i][3] ELSE table[i][4]>>
         ELSE ScanEntries(table, i + 1, mcs_index, bandwidth)

\* `mcs_table[mcs_index]` on a Python list (line 118): a negative index
\* counts from the end, an index outside -len..len-1 raises IndexError.
ListIndex(table, mcs_index) ==
    IF 0 <= mcs_index /\ mcs_index < Len(table)
    THEN [exc |-> "none", value |-> table[mcs_index + 1]]
    ELSE IF -Len(table) <= mcs_index /\ mcs_index < 0
         THEN [exc |-> "none", value |-> table[Len(table) + mcs_index + 1]]
         ELSE [exc |-> "IndexError", value |-> <<"None", "None">>]

\* get_modulation_and_datarate (lines 98-120), reading the table `tables`.
\* The result is [exc, value]: value is the returned pair when exc = "none".
get_modulation_and_datarate_Subscript(tables, ieee_standard, mcs_index, bandwidth) ==
    IF ieee_standard \notin DOMAIN tables
    THEN [exc |-> "KeyError", value |-> <<"None", "None">>]
    ELSE IF ieee_standard \in AdaptiveStandards
         THEN [exc |-> "none",
               value |-> ScanEntries(tables[ieee_standard], 1, mcs_index, bandwidth)]
         ELSE ListIndex(tables[ieee_standard], mcs_index)

get_modulation_and_datarate(tables, ieee_standard, mcs_index, bandwidth) ==
    IF ieee_standard \notin DOMAIN tables \/ Len(tables[ieee_standard]) = 0
    THEN [exc |-> "none", value |-> <<"N/A", "N/A">>]
    ELSE IF ieee_standard \in AdaptiveStandards
         THEN [exc |-> "none",
               value |-> ScanEntries(tables[ieee_standard], 1, mcs_index, bandwidth)]
         ELSE ListIndex(tables[ieee_standard], mcs_index)

(***************************************************************************)
(* The rate lookup driven on its own: every argument triple of the         *)
(* bounded input sets, each looked up MaxCalls times.                      *)
(***************************************************************************)
MaxCalls == 2
MaxMcsIndex == 10

Standards == DOMAIN McsTablesLiteral \cup {"802.11z", "", "wifi6"}
McsIndices == (0 - 3) .. MaxMcsIndex
Bandwidths == {10, 20, 40, 80, 160}

RateInit ==
    /\ mcs_tables = McsTablesLiteral
    /\ rq \in [standard : Standards, mcs_index : McsIndices, bandwidth : Bandwidths]
    /\ rres = << >>

\* The rate lookup not under test: the table as imported, no call made.
RateIdle ==
    /\ mcs_tables = McsTablesLiteral
    /\ rq = [standard |-> "", mcs_index |-> 0, bandwidth |-> 20]
    /\ rres = << >>

\* One call get_modulation_and_datarate(rq.standard, rq.mcs_index, rq.bandwidth).
Lookup ==
    /\ Len(rres) < MaxCalls
    /\ rres' = Append(rres, get_modulation_and_datarate(
                              mcs_tables, rq.standard, rq.mcs_index, rq.bandwidth))
    /\ UNCHANGED <<mcs_tables, rq, notRate>>

RateNext == Lookup

(***************************************************************************)
(* The environment, VANETEnv (PPO.py lines 133-202).                       *)
(*                                                                         *)
(* Power is an integer number of dBm.  The vehicle density rho is held as  *)
(* its cube, an exact fraction <<n, d>> in lowest terms: line 173,         *)
(* rho * (p / new_p) ** (1 / beta) with beta = 3, multiplies the cube of   *)
(* rho by p / new_p.                                                       *)
(***************************************************************************)
beta == 3
PowerLow == 1
PowerHigh == 30
ActionLow == 0 - 3
ActionHigh == 3

RECURSIVE GCD(_, _)
GCD(a, b) == IF b = 0 THEN a ELSE GCD(b, a % b)

\* A fraction n/d, d > 0, in lowest terms.
Frac(n, d) == LET g == GCD(n, d) IN IF g = 0 THEN <<0, 1>> ELSE <<n \div g, d \div g>>

\* np.clip(x, lo, hi)
ClipNoUpper(x, lo, hi) == IF x < lo THEN lo ELSE x

Clip(x, lo, hi) == IF x < lo THEN lo ELSE IF x > hi THEN hi ELSE x

\* self.current_state = None (line 145)
NoState == [isNone |-> TRUE, p |-> 0, rho3 |-> <<0, 1>>]

\* np.array([p, rho])
StateArray(p, rho3) == [isNone |-> FALSE, p |-> p, rho3 |-> rho3]

\* reset (lines 158-162) with the log random.choice drew; the log's
\* 'vehicle_density' is held as the cube of the density.
reset(log) == StateArray(log.power_transmission, log.vehicle_density)

\* Lines 170-173 of step: the clipped power, and the density rescaled by
\* (p / new_p) ** (1 / beta), here on the cube of the density.
NewPower(p, delta_p) == Clip(p + delta_p, PowerLow, PowerHigh)

NewDensity3Inverted(rho3, p, new_p) == Frac(rho3[1] * new_p, rho3[2] * p)

NewDensity3(rho3, p, new_p) == Frac(rho3[1] * p, rho3[2] * new_p)

\* step (lines 164-183).  Line 166 unpacks current_state (TypeError when it
\* is still None); line 174 stores the new state; line 177 then indexes the
\* two-element array with the string 'cbr', which numpy rejects with
\* IndexError, so the call ends there: lines 180-183 are never reached and
\* nothing is returned.
step(state, action) ==
    IF state.isNone
    THEN [state |-> state, exc |-> "TypeError", returned |-> FALSE]
    ELSE LET p == state.p
             new_p == NewPower(p, action)
             rho3 == NewDensity3(state.rho3, p, new_p)
         IN  [state |-> StateArray(new_p, rho3), exc |-> "IndexError",
              returned |-> FALSE]

\* The reward helpers nested in reward_function (lines 187-191).
H(x) == IF x >= 0 THEN 1 ELSE 0

gNoPenalty(x, k) == x * H(x)

g(x, k) == x * (H(x) - 2 * H(x - k))

(***************************************************************************)
(* Python floats in reward_function.  A float is the IEEE-754 double        *)
(* nearest to a decimal literal of n thousandths; it is held as <<n, e>>,   *)
(* the double being exactly n/1000 + e/(1000 * 2^58).  DoubleErr lists e    *)
(* for the literals used (0.6 is 0.59999999999999997779..., so e = -6400;   *)
(* 0.625 is exact).  For doubles within a factor 2 of one another the       *)
(* subtraction is exact, so it is the subtraction of the pairs; every cbr   *)
(* tried lies within a factor 2 of CBR_target.  |e| stays far below one     *)
(* thousandth, so pairs are ordered lexicographically.                      *)
(***************************************************************************)
DoubleErr ==
    [n \in {25, 500, 550, 575, 576, 590, 600, 610, 624, 625, 626, 630, 650} |->
        CASE n = 25 -> 400
          [] n = 500 -> 0
          [] n = 550 -> 12800
          [] n = 575 -> 0 - 12800
          [] n = 576 -> 0 - 12544
          [] n = 590 -> 0 - 8960
          [] n = 600 -> 0 - 6400
          [] n = 610 -> 0 - 3840
          [] n = 624 -> 0 - 256
          [] n = 625 -> 0
          [] n = 626 -> 256
          [] n = 630 -> 1280
          [] n = 650 -> 6400]

\* The double a decimal literal of n thousandths denotes.
Double(n) == <<n, DoubleErr[n]>>

\* a - b, abs(a), a <= b and a >= 0 on doubles.
FloatSub(a, b) == <<a[1] - b[1], a[2] - b[2]>>

FloatLe(a, b) == a[1] < b[1] \/ (a[1] = b[1] /\ a[2] <= b[2])

FloatAbs(a) == IF FloatLe(<<0, 0>>, a) THEN a ELSE <<0 - a[1], 0 - a[2]>>

\* self.CBR_target = 0.6 (line 147) and the literal 0.025 of line 198.
CBR_target == Double(600)

BonusTolerance == Double(25)

\* The instance as __init__ (lines 134-156) leaves it: pi_b, kb, pi_p_prime
\* and pi_p2 are assigned nowhere in the class.
AsConstructed ==
    [weights |-> FALSE, pi_b |-> 0, kb |-> 0, pi_p_prime |-> 0, pi_p2 |-> 0]

\* reward_function (lines 185-202) on the instance self, with cbr a double
\* and p, p_prime whole powers.  Line 194 reads self.pi_b, self.kb,
\* self.pi_p_prime and self.pi_p2: AttributeError on an instance that has
\* none.  Otherwise the reward is the linear form
\*     cbr_coef * cbr + whole + tenths / 10,
\* where cbr_coef * cbr is pi_b * g(cbr, kb), whole is the two power terms,
\* and tenths is the +10 or -0.1 of lines 198-201.
reward_function(self, cbr, p, p_prime) ==
    IF ~self.weights
    THEN [exc |-> "AttributeError", cbr_coef |-> 0, whole |-> 0, tenths |-> 0]
    ELSE LET Hcbr == IF FloatLe(<<0, 0>>, cbr) THEN 1 ELSE 0
             Hcbr_kb == IF FloatLe(<<1000 * self.kb, 0>>, cbr) THEN 1 ELSE 0
             absdp == IF p - p_prime >= 0 THEN p - p_prime ELSE p_prime - p
         IN  [exc |-> "none",
              cbr_coef |-> self.pi_b * (Hcbr - 2 * Hcbr_kb),
              whole |-> 0 - (self.pi_p_prime * absdp) - (self.pi_p2 * g(p_prime, 20)),
              tenths |-> IF FloatLe(FloatAbs(FloatSub(cbr, CBR_target)), BonusTolerance)
                         THEN 100 ELSE 0 - 1]

(***************************************************************************)
(* The environment driven on its own: one log in the pool, any sequence    *)
(* of reset() and step([a]) calls, up to MaxSteps steps.                   *)
(***************************************************************************)
MaxSteps == 3
MaxDelta == 31

Densities3 == {<<1, 8>>, <<1, 125>>}

\* The actions tried: every whole action of the action space, and one far
\* outside it on either side.
Deltas == (ActionLow .. ActionHigh) \cup {0 - MaxDelta, MaxDelta}

EnvInit ==
    /\ env_logs \in { <<[power_transmission |-> p, vehicle_density |-> r]>> :
                        p \in PowerLow .. PowerHigh, r \in Densities3 }
    /\ current_state = NoState
    /\ env_last = [op |-> "init", exc |-> "none", action |-> 0]
    /\ env_nsteps = 0

EnvIdle ==
    /\ env_logs = << >>
    /\ current_state = NoState
    /\ env_last = [op |-> "init", exc |-> "none", action |-> 0]
    /\ env_nsteps = 0

\* env.reset()
EnvReset ==
    /\ \E i \in 1 .. Len(env_logs) : current_state' = reset(env_logs[i])
    /\ env_last' = [op |-> "reset", exc |-> "none", action |-> 0]
    /\ UNCHANGED <<env_logs, env_nsteps, notEnv>>

\* env.step([a]), the exception it raises caught by the caller.
EnvStep ==
    /\ env_nsteps < MaxSteps
    /\ \E a \in Deltas :
         LET r == step(current_state, a)
         IN  /\ current_state' = r.state
             /\ env_last' = [op |-> "step", exc |-> r.exc, action |-> a]
    /\ env_nsteps' = env_nsteps + 1
    /\ UNCHANGED <<env_logs, notEnv>>

EnvNext == EnvReset \/ EnvStep

(***************************************************************************)
(* The reward helper g applied to every (x, k) of a bounded grid.          *)
(***************************************************************************)
MaxX == 8
MaxK == 6

RewardInit ==
    /\ gin \in [x : (0 - MaxX) .. MaxX, k : (0 - MaxK) .. MaxK]
    /\ gout = [called |-> FALSE, value |-> 0]

RewardIdle ==
    /\ gin = [x |-> 0, k |-> 0]
    /\ gout = [called |-> FALSE, value |-> 0]

\* One call g(gin.x, gin.k).
CallG ==
    /\ ~gout.called
    /\ gout' = [called |-> TRUE, value |-> g(gin.x, gin.k)]
    /\ UNCHANGED <<gin, notReward>>

RewardNext == CallG

(***************************************************************************)
(* reward_function called once on an instance and a (cbr, p, p_prime) of a  *)
(* bounded grid.  The instance is the one __init__ builds, or one on which  *)
(* the caller has assigned the four weights before the call.                *)
(***************************************************************************)
MaxWeight == 1

CbrLiterals == {550, 575, 576, 590, 600, 610, 624, 625, 626, 630, 650}

Instances ==
    {AsConstructed} \cup
    [weights : {TRUE}, pi_b : 1 .. MaxWeight, kb : 1 .. MaxWeight,
     pi_p_prime : 1 .. MaxWeight, pi_p2 : 1 .. MaxWeight]

NoReward == [called |-> FALSE, exc |-> "none", cbr_coef |-> 0, whole |-> 0, tenths |-> 0]

BonusInit ==
    /\ rwin \in [self : Instances, cbr : CbrLiterals,
                 p : {PowerLow, 20, PowerHigh}, p_prime : {PowerLow, 20, PowerHigh}]
    /\ rwout = NoReward

BonusIdle ==
    /\ rwin = [self |-> AsConstructed, cbr |-> 600, p |-> PowerLow, p_prime |-> PowerLow]
    /\ rwout = NoReward

\* One call self.reward_function(cbr, p, p_prime).
CallReward ==
    /\ ~rwout.called
    /\ LET r == reward_function(rwin.self, Double(rwin.cbr), rwin.p, rwin.p_prime)
       IN  rwout' = [called |-> TRUE, exc |-> r.exc, cbr_coef |-> r.cbr_coef,
                     whole |-> r.whole, tenths |-> r.tenths]
    /\ UNCHANGED <<rwin, notBonus>>

BonusNext == CallReward

(***************************************************************************)
(* JSON texts and values.  A payload is a sequence of bytes, each one of   *)
(* "[", "]", "{", "}", "1".  The texts json.loads accepts are: a number    *)
(* (one or more "1"); an object, "{" digits "}", whose digits name the     *)
(* record it stands for; and an array, "[" text "]" or "[]".  A value is   *)
(* [wrap, kind, n]: the core (a number n, the object n, or nothing)        *)
(* inside `wrap` nested one-element lists.                                 *)
(***************************************************************************)
JNum(n) == [wrap |-> 0, kind |-> "num", n |-> n]
JObj(n) == [wrap |-> 0, kind |-> "obj", n |-> n]
JEmptyList == [wrap |-> 1, kind |-> "nil", n |-> 0]
JList(v) == [v EXCEPT !.wrap = @ + 1]
\* A local that has not been assigned.
NoValue == [wrap |-> 0, kind |-> "unset", n |-> 0]

IsDict(v) == v.wrap = 0 /\ v.kind = "obj"
IsList(v) == v.wrap > 0
\* The values len() accepts (server.py line 57).
HasLen(v) == IsDict(v) \/ IsList(v)

Ones(n) == [i \in 1 .. n |-> "1"]
AllOnes(s) == \A i \in 1 .. Len(s) : s[i] = "1"
Middle(s) == SubSeq(s, 2, Len(s) - 1)

\* json.dumps (client.py line 48)
RECURSIVE json_dumps(_)
json_dumps(v) ==
    IF v.wrap > 0
    THEN <<"[">> \o (IF v.wrap = 1 /\ v.kind = "nil"
                     THEN << >>
                     ELSE json_dumps([v EXCEPT !.wrap = @ - 1])) \o <<"]">>
    ELSE IF v.kind = "num" THEN Ones(v.n)
         ELSE <<"{">> \o Ones(v.n) \o <<"}">>

\* json.loads (PPO.py line 329, server.py line 56): [ok, value]; ok is
\* FALSE when it raises JSONDecodeError.
RECURSIVE json_loads(_)
json_loads(s) ==
    IF Len(s) = 0 THEN [ok |-> FALSE, value |-> NoValue]
    ELSE IF AllOnes(s) THEN [ok |-> TRUE, value |-> JNum(Len(s))]
    ELSE IF Len(s) >= 2 /\ s[1] = "{" /\ s[Len(s)] = "}" /\ AllOnes(Middle(s))
         THEN [ok |-> TRUE, value |-> JObj(Len(s) - 2)]
    ELSE IF Len(s) >= 2 /\ s[1] = "[" /\ s[Len(s)] = "]"
         THEN IF Len(s) = 2
              THEN [ok |-> TRUE, value |-> JEmptyList]
              ELSE LET r == json_loads(Middle(s))
                   IN  IF r.ok THEN [ok |-> TRUE, value |-> JList(r.value)]
                       ELSE [ok |-> FALSE, value |-> NoValue]
    ELSE [ok |-> FALSE, value |-> NoValue]

\* The record an object stands for, as a Python dict (key -> value):
\*   {}     the empty dict;
\*   {1}    a record as client.py builds it (lines 28-38): no
\*          'vehicle_density', no standard, index or bandwidth;
\*   {11}   a record with every key process_car_log reads;
\*   longer a record with the keys reset reads and defaults for the rest.
Fields(v) ==
    IF v.n = 0 THEN [k \in {} |-> 0]
    ELSE IF v.n = 1
         THEN [car_id |-> "car1", power_transmission |-> 15, channel_busy_ratio |-> 600]
    ELSE IF v.n = 2
         THEN [car_id |-> "car2", power_transmission |-> 30, vehicle_density |-> <<1, 8>>,
               ieee_standard |-> "802.11ax", mcs_index |-> 3, bandwidth |-> 40]
    ELSE [car_id |-> "car3", power_transmission |-> 1, vehicle_density |-> <<1, 125>>]

\* dict.get(key, default)
dict_get(d, key, default) == IF key \in DOMAIN d THEN d[key] ELSE default

(***************************************************************************)
(* The agent and the per-record optimiser (PPO.py lines 219-262, 339-375). *)
(***************************************************************************)
\* select_action (lines 219-226): `raw` is the sample np.random.normal drew
\* around the policy's mean action; the result is clipped to the action space.
select_action(raw) == Clip(raw, ActionLow, ActionHigh)

\* train(num_episodes=1) on an environment whose pool is `pool` (lines
\* 228-262): reset (KeyError when the log lacks a key), select_action, step.
\* step raises, so the episode ends there; were it to return, line 259 would
\* raise NameError, plt never being imported.
train(pool, raw) ==
    LET log == pool[1]
    IN  IF "power_transmission" \notin DOMAIN log \/ "vehicle_density" \notin DOMAIN log
        THEN [exc |-> "KeyError", state |-> NoState]
        ELSE LET r == step(reset(log), select_action(raw))
             IN  IF r.exc # "none" THEN [exc |-> r.exc, state |-> r.state]
                 ELSE [exc |-> "NameError", state |-> r.state]

\* The except clause of apply_optimized_settings (lines 374-375).
ApplyExceptKeyErrorOnly(exc) ==
    IF exc = "KeyError" THEN [caught |-> exc, escaped |-> "none"]
    ELSE [caught |-> "none", escaped |-> exc]

ApplyExcept(exc) == [caught |-> exc, escaped |-> "none"]

\* adjust_data_rate (lines 123-130): `iw` is how the iw command ends.  Only
\* CalledProcessError is caught here.
adjust_data_rate(bitrate, car, datarate, iw) ==
    IF iw = "ok"
    THEN [bitrate |-> [c \in DOMAIN bitrate \cup {car} |->
                          IF c = car THEN datarate ELSE bitrate[c]],
          exc |-> "none"]
    ELSE IF iw = "CalledProcessError" THEN [bitrate |-> bitrate, exc |-> "none"]
    ELSE [bitrate |-> bitrate, exc |-> iw]

\* apply_optimized_settings (lines 364-375) on the actuation state a.
\* ext says how the emulator and the OS behave in this call: what
\* getNodeByName does for an absent node, how setParam ends, how iw ends.
apply_optimized_settings(a, car_id, power_transmission, data_rate, ext) ==
    LET ended(b, exc) ==
            LET h == IF exc = "none" THEN [caught |-> "none", escaped |-> "none"]
                     ELSE ApplyExcept(exc)
            IN  [b EXCEPT !.caught = h.caught, !.escaped = h.escaped,
                          !.calls = @ + 1]
    IN  IF a.net = "None" THEN ended(a, "AttributeError")
        ELSE IF car_id \notin a.nodes
             THEN ended(a, IF ext.lookup = "KeyError" THEN "KeyError" ELSE "none")
        ELSE IF ext.setParam # "ok" THEN ended(a, ext.setParam)
        ELSE LET tx == [c \in DOMAIN a.txpower \cup {car_id} |->
                           IF c = car_id THEN power_transmission ELSE a.txpower[c]]
                 r == adjust_data_rate(a.bitrate, car_id, data_rate, ext.iw)
             IN  ended([a EXCEPT !.txpower = tx, !.bitrate = r.bitrate], r.exc)

NoCmd == [set |-> FALSE, car_id |-> "", power |-> 0, data_rate |-> ""]

\* Lines 342-349 of process_car_log: the reads of the record (car_log.get
\* raises AttributeError on a list or a number), the fresh environment and
\* agent, and train(num_episodes=1); raw1 is the sample of its select_action.
optimise(car_log, raw1) ==
    IF ~IsDict(car_log)
    THEN [exc |-> "AttributeError", state |-> NoState]
    ELSE train(<<Fields(car_log)>>, raw1)

\* process_car_log (lines 339-362): raw2 is the sample of the final
\* select_action.  The result is the exception that ends the call ("none"
\* when it returns), the actuation command emitted, and the actuation state
\* afterwards.
process_car_log(car_log, raw1, raw2, tables, a, ext) ==
    LET t == optimise(car_log, raw1)
    IN  IF t.exc # "none" THEN [exc |-> t.exc, cmd |-> NoCmd, act |-> a]
        ELSE LET d == Fields(car_log)
                 ieee_standard == dict_get(d, "ieee_standard", "802.11g")
                 bandwidth == dict_get(d, "bandwidth", 20)
                 mcs_index == dict_get(d, "mcs_index", 0)
                 new_power_transmission == select_action(raw2)
                 rate == get_modulation_and_datarate(tables, ieee_standard,
                                                     mcs_index, bandwidth)
             IN  IF rate.exc # "none" THEN [exc |-> rate.exc, cmd |-> NoCmd, act |-> a]
                 ELSE IF "car_id" \notin DOMAIN d
                      THEN [exc |-> "KeyError", cmd |-> NoCmd, act |-> a]
                 ELSE LET b == apply_optimized_settings(a, d.car_id,
                                   new_power_transmission, rate.value[2], ext)
                      IN  [exc |-> b.escaped,
                           cmd |-> [set |-> TRUE, car_id |-> d.car_id,
                                    power |-> new_power_transmission,
                                    data_rate |-> rate.value[2]],
                           act |-> b]

(***************************************************************************)
(* The servers.  Either PPO.py's Server (main, line 379) or server.py      *)
(* listens on port 9999; client.py, or any other sender, connects, writes  *)
(* its payload and closes.  A recv(4096) returns whatever part of the      *)
(* unread bytes the transport has delivered: at least one byte and at most *)
(* RecvSize (standing for 4096), or b'' once the sender has closed and     *)
(* every byte has been read.                                               *)
(***************************************************************************)
MaxConns == 2
RecvSize == 4

Conns == 1 .. MaxConns

\* What client.py and a single-record sender encode, and texts no encoder
\* produces: a truncated object, and nothing at all.
SentValues == {JObj(1), JObj(2), JList(JObj(1)), JNum(2)}
Payloads == {json_dumps(v) : v \in SentValues} \cup {<<"{", "1">>, << >>}

Min(a, b) == IF a <= b THEN a ELSE b

\* The samples np.random.normal may draw in a handler's pass: inside the
\* action space, and far outside it on either side.
Samples == {0 - MaxDelta, 0, MaxDelta}

\* The except clause of handle_client (PPO.py lines 334-335, server.py
\* lines 59-61): `except Exception` catches every exception raised here.
HandlerExceptKeyErrorOnly(exc) ==
    IF exc = "KeyError" THEN [caught |-> exc, escaped |-> "none"]
    ELSE [caught |-> "none", escaped |-> exc]

HandlerExcept(exc) == [caught |-> exc, escaped |-> "none"]

\* list.append (PPO.py line 331): one call of the interpreter, not
\* interrupted by another thread.
ListAppendLastSlot(list, x) ==
    IF Len(list) = 0 THEN <<x>> ELSE [list EXCEPT ![Len(list)] = x]

ListAppend(list, x) == Append(list, x)

\* What a recv returns that delivers k of the bytes after the first `from`;
\* b'' when k = 0.
Recv(bytes, from, k) == SubSeq(bytes, from + 1, from + k)

ActIdle == [net |-> "None", nodes |-> {}, txpower |-> [c \in {} |-> 0],
            bitrate |-> [c \in {} |-> ""], caught |-> "none", escaped |-> "none",
            calls |-> 0]

ExtChoices == [lookup : {"None", "KeyError"}, setParam : {"ok", "Exception"},
               iw : {"ok", "CalledProcessError", "FileNotFoundError"}]

NetInit ==
    /\ program \in {"PPO", "collector"}
    /\ srv_pc = "accept"
    /\ backlog = << >>
    /\ conn = [c \in Conns |-> "idle"]
    /\ payload \in [Conns -> Payloads]
    /\ rpos = [c \in Conns |-> 0]
    /\ hpc = [c \in Conns |-> "none"]
    /\ hdata = [c \in Conns |-> << >>]
    /\ hdecoded = [c \in Conns |-> NoValue]
    /\ herr = [c \in Conns |-> "none"]
    /\ hescaped = [c \in Conns |-> "none"]
    /\ hproc = [c \in Conns |-> "notcalled"]
    /\ hcmd = [c \in Conns |-> NoCmd]
    /\ car_logs = << >>
    /\ retval = NoValue

NetIdle ==
    /\ program = "none"
    /\ srv_pc = "accept"
    /\ backlog = << >>
    /\ conn = [c \in Conns |-> "idle"]
    /\ payload = [c \in Conns |-> << >>]
    /\ rpos = [c \in Conns |-> 0]
    /\ hpc = [c \in Conns |-> "none"]
    /\ hdata = [c \in Conns |-> << >>]
    /\ hdecoded = [c \in Conns |-> NoValue]
    /\ herr = [c \in Conns |-> "none"]
    /\ hescaped = [c \in Conns |-> "none"]
    /\ hproc = [c \in Conns |-> "notcalled"]
    /\ hcmd = [c \in Conns |-> NoCmd]
    /\ car_logs = << >>
    /\ retval = NoValue

\* The handler of c ends its try block with exception exc: the except
\* clause, then on to the finally clause.
Raise(c, exc) ==
    LET h == HandlerExcept(exc)
    IN  /\ herr' = [herr EXCEPT ![c] = h.caught]
        /\ hescaped' = [hescaped EXCEPT ![c] = h.escaped]

\* client.py lines 49-51 (connect, sendall, close), up to the server's
\* listen queue.
Connect(c) ==
    /\ conn[c] = "idle"
    /\ program # "none"
    /\ conn' = [conn EXCEPT ![c] = "connected"]
    /\ backlog' = Append(backlog, c)
    /\ UNCHANGED <<program, srv_pc, payload, rpos, hpc, hdata, hdecoded, herr,
                   hescaped, hproc, hcmd, car_logs, retval, act, notNet>>

\* PPO.py lines 314-319: accept, then a new thread running handle_client.
AcceptOnce ==
    /\ program = "PPO"
    /\ srv_pc = "accept"
    /\ backlog # << >>
    /\ LET c == Head(backlog)
       IN  /\ conn' = [conn EXCEPT ![c] = "accepted"]
           /\ hpc' = [hpc EXCEPT ![c] = "recv"]
    /\ backlog' = Tail(backlog)
    /\ srv_pc' = "returned"
    /\ UNCHANGED <<program, payload, rpos, hdata, hdecoded, herr,
                   hescaped, hproc, hcmd, car_logs, retval, act, notNet>>

Accept ==
    /\ program = "PPO"
    /\ srv_pc = "accept"
    /\ backlog # << >>
    /\ LET c == Head(backlog)
       IN  /\ conn' = [conn EXCEPT ![c] = "accepted"]
           /\ hpc' = [hpc EXCEPT ![c] = "recv"]
    /\ backlog' = Tail(backlog)
    /\ UNCHANGED <<program, srv_pc, payload, rpos, hdata, hdecoded, herr,
                   hescaped, hproc, hcmd, car_logs, retval, act, notNet>>

\* PPO.py lines 325-327: the handler's one recv; no data, return.
HRecv(c) ==
    /\ hpc[c] = "recv"
    /\ \E k \in 0 .. Min(RecvSize, Len(payload[c])) :
         /\ (k = 0) <=> (Len(payload[c]) = 0)
         /\ hdata' = [hdata EXCEPT ![c] = Recv(payload[c], 0, k)]
         /\ rpos' = [rpos EXCEPT ![c] = k]
         /\ hpc' = [hpc EXCEPT ![c] = IF k = 0 THEN "close" ELSE "decode"]
    /\ UNCHANGED <<program, srv_pc, backlog, conn, payload, hdecoded, herr,
                   hescaped, hproc, hcmd, car_logs, retval, act, notNet>>

\* PPO.py line 329.
HDecode(c) ==
    /\ hpc[c] = "decode"
    /\ LET r == json_loads(hdata[c])
       IN  IF r.ok
           THEN /\ hdecoded' = [hdecoded EXCEPT ![c] = r.value]
                /\ hpc' = [hpc EXCEPT ![c] = "append"]
                /\ UNCHANGED <<herr, hescaped>>
           ELSE /\ Raise(c, "JSONDecodeError")
                /\ hpc' = [hpc EXCEPT ![c] = "close"]
                /\ UNCHANGED hdecoded
    /\ UNCHANGED <<program, srv_pc, backlog, conn, payload, rpos, hdata,
                   hproc, hcmd, car_logs, retval, act, notNet>>

\* PPO.py line 331.
HAppend(c) ==
    /\ hpc[c] = "append"
    /\ car_logs' = ListAppend(car_logs, hdecoded[c])
    /\ hpc' = [hpc EXCEPT ![c] = "process"]
    /\ UNCHANGED <<program, srv_pc, backlog, conn, payload, rpos, hdata, hdecoded,
                   herr, hescaped, hproc, hcmd, retval, act, notNet>>

\* PPO.py line 333: the whole pass of process_car_log.  The second sample
\* and the emulator's behaviour are drawn only in a pass that gets as far
\* as using them.
HProcess(c) ==
    /\ hpc[c] = "process"
    /\ \E raw1 \in Samples :
       \E raw2 \in IF optimise(hdecoded[c], raw1).exc = "none" THEN Samples ELSE {0} :
       \E ext \in IF optimise(hdecoded[c], raw1).exc = "none" THEN ExtChoices
                  ELSE {[lookup |-> "None", setParam |-> "ok", iw |-> "ok"]} :
         LET r == process_car_log(hdecoded[c], raw1, raw2, mcs_tables, act, ext)
         IN  /\ hproc' = [hproc EXCEPT ![c] = IF r.exc = "none" THEN "returned" ELSE r.exc]
             /\ hcmd' = [hcmd EXCEPT ![c] = r.cmd]
             /\ act' = r.act
             /\ IF r.exc = "none" THEN UNCHANGED <<herr, hescaped>> ELSE Raise(c, r.exc)
    /\ hpc' = [hpc EXCEPT ![c] = "close"]
    /\ UNCHANGED <<program, srv_pc, backlog, conn, payload, rpos, hdata, hdecoded,
                   car_logs, retval, notNet>>

\* PPO.py line 337: the finally clause; the thread ends.
HClose(c) ==
    /\ hpc[c] = "close"
    /\ conn' = [conn EXCEPT ![c] = "closed"]
    /\ hpc' = [hpc EXCEPT ![c] = "done"]
    /\ UNCHANGED <<program, srv_pc, backlog, payload, rpos, hdata, hdecoded, herr,
                   hescaped, hproc, hcmd, car_logs, retval, act, notNet>>

\* server.py lines 70-71: the one accept of start_server; handle_client
\* then runs on the main thread.
CAccept ==
    /\ program = "collector"
    /\ srv_pc = "accept"
    /\ backlog # << >>
    /\ LET c == Head(backlog)
       IN  /\ conn' = [conn EXCEPT ![c] = "accepted"]
           /\ hpc' = [hpc EXCEPT ![c] = "crecv"]
    /\ backlog' = Tail(backlog)
    /\ srv_pc' = "handling"
    /\ UNCHANGED <<program, payload, rpos, hdata, hdecoded, herr, hescaped,
                   hproc, hcmd, car_logs, retval, act, notNet>>

\* server.py lines 50-54: one turn of the read loop.
CRecv(c) ==
    /\ hpc[c] = "crecv"
    /\ LET unread == Len(payload[c]) - rpos[c]
       IN  \E k \in 0 .. Min(RecvSize, unread) :
             /\ (k = 0) <=> (unread = 0)
             /\ hdata' = [hdata EXCEPT ![c] = @ \o Recv(payload[c], rpos[c], k)]
             /\ rpos' = [rpos EXCEPT ![c] = @ + k]
             /\ hpc' = [hpc EXCEPT ![c] = IF k = 0 THEN "cdecode" ELSE "crecv"]
    /\ UNCHANGED <<program, srv_pc, backlog, conn, payload, hdecoded, herr,
                   hescaped, hproc, hcmd, car_logs, retval, act, notNet>>

\* server.py lines 56-61: decode, len() for the log line, the value to
\* return; [] from the except clause.
CDecode(c) ==
    /\ hpc[c] = "cdecode"
    /\ LET r == json_loads(hdata[c])
       IN  IF r.ok /\ HasLen(r.value)
           THEN /\ hdecoded' = [hdecoded EXCEPT ![c] = r.value]
                /\ retval' = r.value
                /\ UNCHANGED <<herr, hescaped>>
           ELSE /\ Raise(c, IF r.ok THEN "TypeError" ELSE "JSONDecodeError")
                /\ hdecoded' = [hdecoded EXCEPT ![c] = IF r.ok THEN r.value ELSE @]
                /\ retval' = JEmptyList
    /\ hpc' = [hpc EXCEPT ![c] = "cclose"]
    /\ UNCHANGED <<program, srv_pc, backlog, conn, payload, rpos, hdata,
                   hproc, hcmd, car_logs, act, notNet>>

\* server.py lines 62-63 and 71: the finally clause, then start_server
\* returns what handle_client returned and leaves its `with` block.
CClose(c) ==
    /\ hpc[c] = "cclose"
    /\ conn' = [conn EXCEPT ![c] = "closed"]
    /\ hpc' = [hpc EXCEPT ![c] = "done"]
    /\ srv_pc' = "returned"
    /\ UNCHANGED <<program, backlog, payload, rpos, hdata, hdecoded, herr,
                   hescaped, hproc, hcmd, car_logs, retval, act, notNet>>

\* The steps of PPO.py's handler thread for c, and of server.py's
\* handle_client for c.
PPOStep(c) == HRecv(c) \/ HDecode(c) \/ HAppend(c) \/ HProcess(c) \/ HClose(c)

CollectorStep(c) == CRecv(c) \/ CDecode(c) \/ CClose(c)

HandlerStep(c) == PPOStep(c) \/ CollectorStep(c)

NetNext ==
    \/ \E c \in Conns : Connect(c)
    \/ Accept
    \/ CAccept
    \/ \E c \in Conns : PPOStep(c)
    \/ \E c \in Conns : CollectorStep(c)

(***************************************************************************)
(* apply_optimized_settings called on the Server object directly, up to    *)
(* MaxApply times, while PPO.py's handlers run.                            *)
(***************************************************************************)
MaxApply == 2

\* Server.net: None (line 301), an emulator without the nodes, an emulator
\* holding car1 and car2.
ActChoices ==
    {ActIdle,
     [ActIdle EXCEPT !.net = "emulator"],
     [ActIdle EXCEPT !.net = "emulator", !.nodes = {"car1", "car2"}]}

ApplyDirect ==
    /\ act.calls < MaxApply
    /\ \E car_id \in {"car1", "car9"}, power \in {ActionHigh},
          data_rate \in {"6.0"}, ext \in ExtChoices :
         act' = apply_optimized_settings(act, car_id, power, data_rate, ext)
    /\ UNCHANGED <<netVars, notNet>>

ActuateNext ==
    \/ \E c \in Conns : Connect(c)
    \/ Accept
    \/ \E c \in Conns : PPOStep(c)
    \/ ApplyDirect

(***************************************************************************)
(* PPOAgent.train (lines 228-262) on an environment with one log in its     *)
(* pool.  The trajectory lists states, actions, rewards and next_states     *)
(* grow and are cleared together, so they are held as one list of tuples.   *)
(* update (lines 264-293) changes the weights only; here it is counted.     *)
(***************************************************************************)
MaxEpisodes == 2
MaxBatch == 3

NoCalls == [reset |-> 0, step |-> 0, update |-> 0]

TrainInit ==
    /\ train_pc = "for"
    /\ train_args \in [num_episodes : 1 .. MaxEpisodes, batch_size : 1 .. MaxBatch]
    /\ train_state = NoState
    /\ train_buf = << >>
    /\ train_calls = NoCalls
    /\ train_exc = "none"

TrainIdle ==
    /\ train_pc = "idle"
    /\ train_args = [num_episodes |-> 1, batch_size |-> 1]
    /\ train_state = NoState
    /\ train_buf = << >>
    /\ train_calls = NoCalls
    /\ train_exc = "none"

\* Lines 230-233: the next episode begins; state = self.env.reset(), the
\* four lists are bound to fresh empty lists, done = False.
TrainEpisode ==
    /\ train_pc = "for"
    /\ train_calls.reset < train_args.num_episodes
    /\ \E i \in 1 .. Len(env_logs) :
         /\ current_state' = reset(env_logs[i])
         /\ train_state' = reset(env_logs[i])
    /\ env_last' = [op |-> "reset", exc |-> "none", action |-> 0]
    /\ train_buf' = << >>
    /\ train_calls' = [train_calls EXCEPT !.reset = @ + 1]
    /\ train_pc' = "while"
    /\ UNCHANGED <<env_logs, env_nsteps, train_args, train_exc, notTrain>>

\* Lines 234-259: one pass of the while loop.  select_action and step are
\* called; an exception of step leaves train at once.  Were step to return,
\* the experience is appended, update is called and the lists are cleared
\* when len(rewards) >= batch_size, and done (True, line 182) ends the
\* episode; after the last episode line 259 raises NameError, plt never
\* being imported.
TrainIterate ==
    /\ train_pc = "while"
    /\ \E raw \in Samples :
         LET action == select_action(raw)
             r == step(current_state, action)
             grown == Append(train_buf, [state |-> train_state, action |-> action,
                                         next_state |-> r.state])
             full == Len(grown) >= train_args.batch_size
             last == train_calls.reset >= train_args.num_episodes
         IN  /\ current_state' = r.state
             /\ env_last' = [op |-> "step", exc |-> r.exc, action |-> action]
             /\ IF r.exc # "none"
                THEN /\ train_pc' = "raised"
                     /\ train_exc' = r.exc
                     /\ train_calls' = [train_calls EXCEPT !.step = @ + 1]
                     /\ UNCHANGED <<train_state, train_buf>>
                ELSE /\ train_state' = r.state
                     /\ train_buf' = IF full THEN << >> ELSE grown
                     /\ train_calls' = [train_calls EXCEPT !.step = @ + 1,
                                          !.update = IF full THEN @ + 1 ELSE @]
                     /\ train_pc' = IF last THEN "raised" ELSE "for"
                     /\ train_exc' = IF last THEN "NameError" ELSE "none"
    /\ env_nsteps' = env_nsteps + 1
    /\ UNCHANGED <<env_logs, train_args, notTrain>>

TrainNext == TrainEpisode \/ TrainIterate

(***************************************************************************)
(* Specifications: each drives one component, the others idle.             *)
(***************************************************************************)
InitRate ==
    /\ RateInit /\ EnvIdle /\ RewardIdle /\ BonusIdle /\ TrainIdle /\ NetIdle
    /\ act = ActIdle
SpecRate == InitRate /\ [][RateNext]_vars

InitEnv ==
    /\ RateIdle /\ EnvInit /\ RewardIdle /\ BonusIdle /\ TrainIdle /\ NetIdle
    /\ act = ActIdle
SpecEnv == InitEnv /\ [][EnvNext]_vars

InitReward ==
    /\ RateIdle /\ EnvIdle /\ RewardInit /\ BonusIdle /\ TrainIdle /\ NetIdle
    /\ act = ActIdle
SpecReward == InitReward /\ [][RewardNext]_vars

InitBonus ==
    /\ RateIdle /\ EnvIdle /\ RewardIdle /\ BonusInit /\ TrainIdle /\ NetIdle
    /\ act = ActIdle
SpecBonus == InitBonus /\ [][BonusNext]_vars

InitTrain ==
    /\ RateIdle /\ EnvInit /\ RewardIdle /\ BonusIdle /\ TrainInit /\ NetIdle
    /\ act = ActIdle
SpecTrain == InitTrain /\ [][TrainNext]_vars

\* The servers and their senders; Server.net is None, as line 301 leaves it.
Init ==
    /\ RateIdle /\ EnvIdle /\ RewardIdle /\ BonusIdle /\ TrainIdle /\ NetInit
    /\ act = ActIdle
Next == NetNext
Spec == Init /\ [][Next]_vars

\* The same, with the scheduling the threads and the senders have: the
\* accept loop, and every handler that can take a step, eventually run.
Fairness ==
    /\ WF_vars(Accept)
    /\ WF_vars(CAccept)
    /\ \A c \in Conns : WF_vars(HandlerStep(c))

FairSpec == Init /\ [][Next]_vars /\ Fairness

\* PPO.py's Server with a caller of apply_optimized_settings.
InitActuate ==
    /\ RateIdle /\ EnvIdle /\ RewardIdle /\ BonusIdle /\ TrainIdle /\ NetInit
    /\ program = "PPO"
    /\ \A c \in Conns : payload[c] \in {json_dumps(JObj(1)), json_dumps(JObj(2))}
    /\ act \in ActChoices

SpecActuate == InitActuate /\ [][ActuateNext]_vars

\* C1: get_modulation_and_datarate is a pure function of its arguments: every
\* call made with the same arguments returned the same pair and left the
\* rate table as it was; it returns ("BPSK", 3.0) for ("802.11p", 0, any
\* bandwidth), ("16-QAM", 29.2) for ("802.11ax", 3, 20), ("16-QAM", 60.0)
\* for ("802.11ax", 3, 40), and ("N/A", "N/A"), without raising, for every
\* standard that is no key of the table.
C1_LookupPureAndExact ==
    /\ mcs_tables = McsTablesLiteral
    /\ \A i, j \in 1 .. Len(rres) : rres[i] = rres[j]
    /\ \A i \in 1 .. Len(rres) :
         /\ (rq.standard = "802.11p" /\ rq.mcs_index = 0)
               => rres[i] = [exc |-> "none", value |-> <<"BPSK", "3.0">>]
         /\ (rq.standard = "802.11ax" /\ rq.mcs_index = 3 /\ rq.bandwidth = 20)
               => rres[i] = [exc |-> "none", value |-> <<"16-QAM", "29.2">>]
         /\ (rq.standard = "802.11ax" /\ rq.mcs_index = 3 /\ rq.bandwidth = 40)
               => rres[i] = [exc |-> "none", value |-> <<"16-QAM", "60.0">>]
         /\ rq.standard \notin DOMAIN McsTablesLiteral
               => rres[i] = [exc |-> "none", value |-> <<"N/A", "N/A">>]

\* C1 witness: an unknown standard has been looked up twice and answered
\* with the sentinel pair both times.
C1_Witness ==
    /\ Len(rres) >= 2
    /\ rq.standard = "802.11z"
    /\ rres[1].value = <<"N/A", "N/A">>
    /\ rres[2].value = <<"N/A", "N/A">>

\* C9: for a bandwidth-adaptive standard and an mcs_index present in its
\* table, the lookup returns that entry's modulation with the narrow column
\* (the third field) when bandwidth is 20 and with the column right after it
\* (the fourth field) for every other bandwidth.
C9_AdaptiveColumn ==
    \A i \in 1 .. Len(rres) :
        (/\ rq.standard \in AdaptiveStandards
         /\ \E e \in 1 .. Len(McsTablesLiteral[rq.standard]) :
               McsTablesLiteral[rq.standard][e][1] = rq.mcs_index)
        => LET entry == CHOOSE x \in { McsTablesLiteral[rq.standard][e] :
                                         e \in 1 .. Len(McsTablesLiteral[rq.standard]) } :
                            x[1] = rq.mcs_index
           IN  /\ rres[i].exc = "none"
               /\ rres[i].value[1] = entry[2]
               /\ rq.bandwidth = 20 => rres[i].value[2] = entry[3]
               /\ rq.bandwidth # 20 => rres[i].value[2] = entry[4]

\* C9 witness: 802.11ac, index 9, looked up at 80 MHz: the answer is the
\* 40 MHz column of the entry (None), not a wider one.
C9_Witness ==
    /\ Len(rres) >= 1
    /\ rq = [standard |-> "802.11ac", mcs_index |-> 9, bandwidth |-> 80]
    /\ rres[1] = [exc |-> "none", value |-> <<"256-QAM", "None">>]

\* C2: from a power in [1, 30], after every sequence of step calls with
\* actions of any magnitude, the power of the state the environment holds
\* lies in [1, 30].
C2_PowerInRange ==
    ~current_state.isNone =>
        (PowerLow <= current_state.p /\ current_state.p <= PowerHigh)

\* C2 witness: a second or later step with action +3 has left the power at
\* the upper limit, where the clip acted.
C2_Witness ==
    /\ env_nsteps >= 2
    /\ env_last.op = "step"
    /\ env_last.action = 3
    /\ current_state.p = PowerHigh

\* C10 as stated: for every x and every threshold k, g(x, k) is x when
\* 0 <= x < k, -x when x >= k and 0 when x < 0.
C10_Original ==
    gout.called =>
        /\ (0 <= gin.x /\ gin.x < gin.k) => gout.value = gin.x
        /\ gin.x >= gin.k => gout.value = 0 - gin.x
        /\ gin.x < 0 => gout.value = 0

\* C10 amended: for every x and every threshold k >= 0, g(x, k) is x when
\* 0 <= x < k, -x when x >= k and 0 when x < 0; g(-1, 5) = 0, g(3, 5) = 3
\* and g(7, 5) = -7.
C10_RampForNonNegativeK ==
    (gout.called /\ gin.k >= 0) =>
        /\ (0 <= gin.x /\ gin.x < gin.k) => gout.value = gin.x
        /\ gin.x >= gin.k => gout.value = 0 - gin.x
        /\ gin.x < 0 => gout.value = 0
        /\ gin = [x |-> 0 - 1, k |-> 5] => gout.value = 0
        /\ gin = [x |-> 3, k |-> 5] => gout.value = 3
        /\ gin = [x |-> 7, k |-> 5] => gout.value = 0 - 7

\* C10 witness: g(7, 5) has been computed and is -7.
C10_Witness ==
    /\ gout.called
    /\ gin = [x |-> 7, k |-> 5]
    /\ gout.value = 0 - 7

\* C3: for every telemetry record the per-record optimiser has handled, an
\* actuation command was emitted and its power lies in [1, 30].
C3_CommandPowerInRange ==
    \A c \in Conns :
        (hproc[c] # "notcalled" /\ hdecoded[c] = JObj(2))
        => (hcmd[c].set /\ PowerLow <= hcmd[c].power /\ hcmd[c].power <= PowerHigh)

\* The handlers of PPO.py whose append has been executed.
AppendedBy == {c \in Conns : /\ program = "PPO"
                              /\ hpc[c] \in {"process", "close", "done"}
                              /\ hdecoded[c] # NoValue}

Occurrences(list, v) == Cardinality({i \in 1 .. Len(list) : list[i] = v})

\* C4: appends to Server.car_logs exclude one another: each step of the
\* system adds at most one record at the end of the list and changes no
\* other, and the list holds exactly the records of the handlers that have
\* appended, each as often as it was appended: none lost, none duplicated.
C4_AppendsExcludeOneAnother ==
    /\ [](program = "PPO" =>
            \A c \in AppendedBy :
                Occurrences(car_logs, hdecoded[c])
                  = Cardinality({d \in AppendedBy : hdecoded[d] = hdecoded[c]}))
    /\ [](Len(car_logs) = Cardinality(AppendedBy))
    /\ [][\/ car_logs' = car_logs
          \/ \E c \in Conns : /\ hpc[c] = "append"
                              /\ car_logs' = Append(car_logs, hdecoded[c])]_vars

\* C4 witness: every handler of PPO.py decoded its payload and has ended,
\* and the list holds one record per handler.
C4_Witness ==
    /\ program = "PPO"
    /\ \A c \in Conns : hpc[c] = "done" /\ hdecoded[c] # NoValue
    /\ Len(car_logs) = MaxConns

\* The handler of c is past its decoding and what it had read is no JSON text.
DecodeFailed(c) ==
    /\ hpc[c] \in {"close", "cclose", "done"}
    /\ ~json_loads(hdata[c]).ok

\* C5: when what a handler read is malformed or incomplete JSON, nothing of
\* that connection is decoded, appended to the shared log or passed to the
\* optimiser, server.py returns the empty list, no exception leaves the
\* handler, and the connection is closed when the handler ends.
C5_MalformedBatchDiscarded ==
    /\ \A c \in Conns :
         DecodeFailed(c) =>
            /\ hdecoded[c] = NoValue
            /\ hproc[c] = "notcalled"
            /\ hescaped[c] = "none"
            /\ program = "collector" => retval = JEmptyList
            /\ hpc[c] = "done" => conn[c] = "closed"
    /\ Len(car_logs) = Cardinality(AppendedBy)

\* C5 witness: PPO.py's handler of one connection has ended on a decoding
\* error with its connection closed, while another connection's record is
\* in the log.
C5_Witness ==
    /\ program = "PPO"
    /\ \E c \in Conns :
         /\ DecodeFailed(c) /\ herr[c] = "JSONDecodeError"
         /\ hpc[c] = "done" /\ conn[c] = "closed"
    /\ Len(car_logs) = 1

\* C6: apply_optimized_settings lets no failure out: with the emulator
\* binding unset, the node absent or the bitrate command failing, the
\* exception is caught inside it; and a call changes neither the shared log
\* nor any handler's pass.
C6_ActuationFailureContained ==
    /\ [](act.escaped = "none")
    /\ [][act' # act =>
            UNCHANGED <<car_logs, hpc, hdata, hdecoded, herr, hescaped, hproc, hcmd, conn>>]_vars

\* C6 witness: a call whose bitrate command failed with an error that
\* adjust_data_rate does not catch has returned, a record being in the log.
C6_Witness ==
    /\ act.calls >= 1
    /\ act.caught = "FileNotFoundError"
    /\ act.escaped = "none"
    /\ Len(car_logs) >= 1

\* C7 as stated: after a failure in handling one connection, every other
\* connection that is waiting is eventually accepted and handled, whichever
\* server runs.
C7_Original ==
    \A d \in Conns :
        (conn[d] = "connected" /\ \E c \in Conns \ {d} : herr[c] # "none")
            ~> (hpc[d] = "done")

\* C7 amended: PPO.py's Server never leaves its accept loop, and after a
\* failure in handling one connection every other connection that is
\* waiting is eventually accepted and its handler runs to its end, closing
\* the connection; server.py accepts one connection only and, after a
\* failure in handling it, returns.
C7_ServingGoesOn ==
    /\ [](program = "PPO" => srv_pc = "accept")
    /\ \A d \in Conns :
         (/\ program = "PPO"
          /\ conn[d] = "connected"
          /\ \E c \in Conns \ {d} : herr[c] # "none")
            ~> (hpc[d] = "done" /\ conn[d] = "closed")
    /\ (program = "collector" /\ \E c \in Conns : herr[c] # "none")
            ~> (srv_pc = "returned")

\* C7 witness: in PPO.py's Server one handler ended on a decoding failure,
\* and another connection has been handled to its end, its optimiser pass
\* having failed too.
C7_Witness ==
    /\ program = "PPO"
    /\ herr[1] = "JSONDecodeError" /\ hpc[1] = "done"
    /\ hproc[2] = "IndexError" /\ hpc[2] = "done" /\ conn[2] = "closed"

\* C8: what a handler decodes is the whole payload its sender wrote.
C8_DecodesWholePayload ==
    \A c \in Conns :
        hpc[c] \in {"append", "process", "close", "cclose", "done"}
        => hdata[c] = payload[c]

\* C11: reward_function returns a reward whose last term is +10 exactly when
\* |cbr - 0.6| <= 0.025, the boundary included (cbr = 0.6, 0.575 and 0.625
\* get +10), and -0.1 for every other cbr (cbr = 0.63 for one), whatever the
\* power arguments are.
C11_BonusBandInclusive ==
    rwout.called =>
        LET off == IF rwin.cbr >= 600 THEN rwin.cbr - 600 ELSE 600 - rwin.cbr
        IN  /\ rwout.exc = "none"
            /\ off <= 25 => rwout.tenths = 100
            /\ off > 25 => rwout.tenths = 0 - 1

\* Whether the fraction a is less than the fraction b (denominators positive).
FracLess(a, b) == a[1] * b[2] < b[1] * a[2]

C13_OneStepEpisodes ==
    /\ Len(train_buf) <= train_args.batch_size
    /\ train_calls.step >= 1 => env_last.exc = "none"
    /\ (train_pc = "raised" /\ train_args.num_episodes = 1)
          => /\ train_calls.reset = 1
             /\ train_calls.step = 1
             /\ train_calls.update = IF train_args.batch_size = 1 THEN 1 ELSE 0

====
